---- MODULE Spec2Model ----
(***************************************************************************)
(* Model of the finance mini-app backend (src/app.py): the Flask-Caching   *)
(* SimpleCache shared by all request threads, the cached read endpoints,   *)
(* the memoized breakdown reader with its column reconciliation, and the   *)
(* write / upload / delete / clear endpoints that invalidate the cache;    *)
(* the paging of /breakdown and the four lookups that resolve a branch     *)
(* argument to a tenant's coordinates.                                     *)
(*                                                                         *)
(* The spreadsheet service and the report directory are outside the        *)
(* program: a call to them either succeeds or raises, chosen freely.  The  *)
(* memoized gspread client (get_gspread_client) is part of that service    *)
(* boundary and is not kept as a cache entry of the model.  SimpleCache's  *)
(* pruning above 500 entries is not modelled: the model has two data keys. *)
(***************************************************************************)
EXTENDS Integers, Sequences, FiniteSets, TLC

\* ------------------------------------------------------------------ bounds
\* Largest number of successful cell writes in a run.
MaxWrites == 1
\* The clock advances in steps of ClockStep seconds, up to MaxNow seconds.
ClockStep == 60
MaxNow == 120
\* Longest column block of the reconciliation inputs.
MaxLen == 2
\* Number of times the same four blocks are reconciled.
MaxRuns == 2
\* Longest enumerated item list of a /breakdown request, and the length of the
\* one long list (longer than the page-size ceiling).
MaxItems == 3
LongLen == 502
\* Longest branch argument, in symbols.
MaxArgLen == 2

\* In-flight read requests of the threaded server (app.run, one thread each).
Threads == {"w1", "w2"}
\* Tenant identifiers used by the requests of the cache model.
Branches == {"Private", "Academy"}

\* --------------------------------------------------------- program constants
TTL_BALANCE == 120
TTL_BREAKDOWN == 120
DEFAULT_PAGE == 1
DEFAULT_LIMIT == 100
MAX_LIMIT == 500

VARIABLES
    now,      \* wall clock, seconds (time.time() read by the cache)
    cache,    \* SimpleCache: key -> entry
    sheet,    \* backing documents: tenant -> number of cell writes applied
    pc,       \* per thread: position inside its current read request
    req,      \* per thread: the key it is serving
    rv,       \* per thread: value computed by the view, not yet stored
    pending,  \* keys invalidated and not looked up since (history)
    ev,       \* the last step taken and the response it sent (history)
    stale,    \* per thread: its lookup found an expired entry (history)
    rec,      \* one run of the breakdown reconciliation: input and result
    pg,       \* one /breakdown request: its arguments, locals and response
    tn        \* one branch argument and what each resolver made of it

vars == <<now, cache, sheet, pc, req, rv, pending, ev, stale, rec, pg, tn>>

\* ------------------------------------------------------------------ values
NoData == [status |-> 0, data |-> 0]
Ok(v) == [status |-> 200, data |-> v]
Err500 == [status |-> 500, data |-> 0]
Err400 == [status |-> 400, data |-> 0]
Err404 == [status |-> 404, data |-> 0]
StatusOk == [status |-> 200, data |-> 0]

NoEntry == [present |-> FALSE, value |-> NoData, expires |-> 0, storedAt |-> 0]

\* Cache keys: (operation, tenant).  /balance is a @cache.cached route,
\* read_breakdown_cached a @cache.memoize function.
DataKeys == {<<"balance", "Private">>, <<"breakdown", "Academy">>}
NoKey == <<"", "">>

Timeout(k) == IF k[1] = "balance" THEN TTL_BALANCE ELSE TTL_BREAKDOWN

\* --------------------------------------------------------------- SimpleCache
\* Mutant of CacheGet: an entry is still served at the second it expires.
CacheGet_Inclusive(c, k, t) ==
    IF c[k].present /\ c[k].expires >= t THEN c[k].value ELSE NoData

\* cache.get(key): the stored value while expires > now, else None (NoData).
CacheGet(c, k, t) ==
    IF c[k].present /\ c[k].expires > t THEN c[k].value ELSE NoData

\* Mutant of CacheSet: the timeout is dropped, the entry expires at once.
CacheSet_NoTimeout(c, k, v, ttl, t) ==
    [c EXCEPT ![k] = [present |-> TRUE, value |-> v,
                      expires |-> t, storedAt |-> t]]

\* cache.set(key, value, timeout): expires = now + timeout.
CacheSet(c, k, v, ttl, t) ==
    [c EXCEPT ![k] = [present |-> TRUE, value |-> v,
                      expires |-> t + ttl, storedAt |-> t]]

\* Mutant of CacheClear: only the entries of the cached routes are dropped.
CacheClear_RoutesOnly(c) ==
    [k \in DOMAIN c |-> IF k[1] = "balance" THEN NoEntry ELSE c[k]]

\* Mutant of CacheClear: only the entries of one tenant are dropped.
CacheClear_OneTenant(c) ==
    [k \in DOMAIN c |-> IF k[2] = "Private" THEN NoEntry ELSE c[k]]

\* cache.clear(): drops every entry.
CacheClear(c) == [k \in DOMAIN c |-> NoEntry]

\* cache.delete_memoized(f): the entries memoized for f become unreachable.
DeleteMemoized(c, op) ==
    [k \in DOMAIN c |-> IF k[1] = op THEN NoEntry ELSE c[k]]

\* Cell writes applied so far, over all tenant documents.
Writes(sh) == sh["Private"] + sh["Academy"]

\* History of the last step: its kind, the key or handler it concerns, the
\* response it sent, the reading thread, whether the key had been invalidated
\* with no lookup since, whether the request's lookup had found an expired
\* entry, and how many entries a clear dropped.
Event(kind, k, resp) ==
    [kind |-> kind, k |-> k, resp |-> resp, t |-> "", inval |-> FALSE,
     stale |-> FALSE, n |-> 0]

Present(c) == {k \in DOMAIN c : c[k].present}

\* ------------------------------------------------- breakdown reconciliation
\* A cell's text is a sequence of characters; a row is a sequence of cells; a
\* block is the sequence of rows batch_get returns for one column range.
Whitespace == {" "}

\* str.strip(): drop leading and trailing whitespace.
RECURSIVE LStrip(_)
LStrip(s) ==
    IF s = <<>> THEN s
    ELSE IF Head(s) \in Whitespace THEN LStrip(Tail(s)) ELSE s

RECURSIVE RStrip(_)
RStrip(s) ==
    IF s = <<>> THEN s
    ELSE IF s[Len(s)] \in Whitespace THEN RStrip(SubSeq(s, 1, Len(s) - 1)) ELSE s

\* Mutant of Strip: only leading whitespace is dropped.
Strip_LeftOnly(s) == LStrip(s)

Strip(s) == RStrip(LStrip(s))

\* a[i][0]: raises IndexError when row i or its first cell is missing
\* (i counts from 1 here, from 0 in the source).
FirstCell(a, i) ==
    IF i > Len(a) \/ Len(a[i]) = 0
    THEN [raised |-> TRUE, text |-> <<>>]
    ELSE [raised |-> FALSE, text |-> a[i][1]]

\* Mutant of g: the IndexError of a missing row or cell is not caught.
g_NoCatch(a, i) ==
    LET v == FirstCell(a, i)
    IN IF v.raised THEN v ELSE [raised |-> FALSE, text |-> Strip(v.text)]

\* g(a, i): the stripped first cell of row i; any exception reads as "".
g(a, i) ==
    LET v == FirstCell(a, i)
    IN IF v.raised THEN [raised |-> FALSE, text |-> <<>>]
       ELSE [raised |-> FALSE, text |-> Strip(v.text)]

Max2(a, b) == IF a >= b THEN a ELSE b

\* max_len = max(len(b_amount), len(b_article), len(b_counterparty), len(b_purpose))
MaxLenOf(b) ==
    Max2(Max2(Len(b.amount), Len(b.article)),
         Max2(Len(b.counterparty), Len(b.purpose)))

\* Mutant of Skip: a row is dropped when either cell is empty.
Skip_Either(amount, article) == amount = <<>> \/ article = <<>>

\* `if not amount and not article: continue`
Skip(amount, article) == amount = <<>> /\ article = <<>>

\* The loop `for i in range(max_len)` from row i on, with the records (out)
\* and their row numbers (rows, history) collected so far.
RECURSIVE Rows(_, _, _, _, _)
Rows(b, i, n, out, rows) ==
    IF i > n THEN [status |-> "ok", out |-> out, rows |-> rows]
    ELSE LET amount == g(b.amount, i)
             article == g(b.article, i)
             counterparty == g(b.counterparty, i)
             purpose == g(b.purpose, i)
         IN IF amount.raised \/ article.raised
            THEN [status |-> "error", out |-> out, rows |-> rows]
            ELSE IF Skip(amount.text, article.text)
            THEN Rows(b, i + 1, n, out, rows)
            ELSE IF counterparty.raised \/ purpose.raised
            THEN [status |-> "error", out |-> out, rows |-> rows]
            ELSE Rows(b, i + 1, n,
                      Append(out, [amount |-> amount.text,
                                   article |-> article.text,
                                   counterparty |-> counterparty.text,
                                   purpose |-> purpose.text]),
                      Append(rows, i))

\* The body of read_breakdown_cached after batch_get.
Reconciled(b) == Rows(b, 1, MaxLenOf(b), <<>>, <<>>)

\* Inputs of the reconciliation model: blocks of up to MaxLen rows.
BlocksUpTo(S, n) == UNION {[1..m -> S] : m \in 0..n}
KeyRows == {<<>>, << <<" ">> >>, << <<"5", " ">> >>}
InfoRows == {<< <<>> >>, << <<" ", "c">> >>}
NoBlocks == [amount |-> <<>>, counterparty |-> <<>>, purpose |-> <<>>,
             article |-> <<>>]
RecIdle == [pc |-> "idle", blocks |-> NoBlocks, status |-> "", out |-> <<>>,
            rows |-> <<>>, runs |-> 0, prev |-> <<>>]

\* ------------------------------------------------------ /breakdown paging
\* A query argument is absent, a decimal integer, or some other text.
Absent == [kind |-> "absent", v |-> 0]
AbsentText == [kind |-> "absent", v |-> <<>>]
IntArg(n) == [kind |-> "int", v |-> n]
TextArg == [kind |-> "text", v |-> 0]

\* int(request.args.get(name, default)): ValueError on non-numeric text.
ParseInt(arg, default) ==
    IF arg.kind = "absent" THEN [raised |-> FALSE, v |-> default]
    ELSE IF arg.kind = "int" THEN [raised |-> FALSE, v |-> arg.v]
    ELSE [raised |-> TRUE, v |-> 0]

Min2(a, b) == IF a <= b THEN a ELSE b

\* page = max(1, int(...))
ClampPage(p) == Max2(1, p)

\* Mutant of ClampLimit: the ceiling is missing.
ClampLimit_NoCeiling(l) == Max2(1, l)

\* limit = max(1, min(500, int(...)))
ClampLimit(l) == Max2(1, Min2(MAX_LIMIT, l))

\* start = (page-1)*limit
PageStart(page, limit) == (page - 1) * limit

\* items[start:stop] for 0 <= start <= stop: the items at (0-based) positions
\* start .. stop-1 that exist.
Slice(items, start, stop) ==
    LET last == Min2(stop, Len(items))
    IN IF last <= start THEN <<>>
       ELSE [j \in 1..(last - start) |-> items[start + j]]

\* str.lower() on the letters the requests use.
LowerChar(c) == IF c = "A" THEN "a" ELSE IF c = "B" THEN "b" ELSE c
Lower(s) == [j \in 1..Len(s) |-> LowerChar(s[j])]

\* `search in text`
Contains(text, s) ==
    \E i \in 0..(Len(text) - Len(s)) : SubSeq(text, i + 1, i + Len(s)) = s

\* search = (request.args.get("search","") or "").strip().lower()
SearchOf(arg) == IF arg.kind = "absent" THEN <<>> ELSE Lower(Strip(arg.v))

\* any(search in str(x.get(k) or "").lower() for k in (counterparty, purpose, article))
Matches(x, search) ==
    \/ Contains(Lower(x.counterparty), search)
    \/ Contains(Lower(x.purpose), search)
    \/ Contains(Lower(x.article), search)

\* `if search: items = [x for x in items if ...]`
Filtered(items, search) ==
    IF search = <<>> THEN items
    ELSE SelectSeq(items, LAMBDA x : Matches(x, search))

\* breakdown() once read_breakdown_cached has returned items: the response,
\* with the locals page, limit and (filtered) items it was made from.
Page(items, pageArg, limitArg, searchArg) ==
    LET p == ParseInt(pageArg, DEFAULT_PAGE)
        l == ParseInt(limitArg, DEFAULT_LIMIT)
    IN IF p.raised \/ l.raised
       THEN [status |-> 500, page |-> 0, limit |-> 0, items |-> <<>>,
             total |-> 0, data |-> <<>>]
       ELSE LET page == ClampPage(p.v)
                limit == ClampLimit(l.v)
                kept == Filtered(items, SearchOf(searchArg))
                start == PageStart(page, limit)
            IN [status |-> 200, page |-> page, limit |-> limit, items |-> kept,
                total |-> Len(kept), data |-> Slice(kept, start, start + limit)]

\* Inputs of the paging model.  An item carries its row position as amount.
ItemTexts == {[article |-> <<"A", "b">>, counterparty |-> <<>>, purpose |-> <<>>],
              [article |-> <<>>, counterparty |-> <<"c">>, purpose |-> <<"b", "A">>]}
Item(i, x) == [amount |-> i, article |-> x.article,
               counterparty |-> x.counterparty, purpose |-> x.purpose]
ItemLists ==
    {[i \in 1..m |-> Item(i, f[i])] : m \in 0..MaxItems, f \in [1..MaxItems -> ItemTexts]}
    \cup {[i \in 1..LongLen |-> Item(i, [article |-> <<"A", "b">>,
                                          counterparty |-> <<>>, purpose |-> <<>>])]}
PageArgs == {Absent, TextArg, IntArg(-1), IntArg(0), IntArg(1), IntArg(2), IntArg(999)}
LimitArgs == {Absent, TextArg, IntArg(-5), IntArg(0), IntArg(1), IntArg(2),
              IntArg(MAX_LIMIT), IntArg(MAX_LIMIT + 1)}
SearchArgs == {AbsentText, [kind |-> "text", v |-> <<"a">>],
               [kind |-> "text", v |-> <<" ", "B">>],
               [kind |-> "text", v |-> <<"z">>]}
NoResponse == [status |-> 0, page |-> 0, limit |-> 0, items |-> <<>>,
               total |-> 0, data |-> <<>>]
PageIdle == [pc |-> "idle", items |-> <<>>, pageArg |-> Absent,
             limitArg |-> Absent, searchArg |-> AbsentText, resp |-> NoResponse]

\* ------------------------------------------------------- tenant resolution
\* A branch argument is a string; here a sequence of symbols, where a tenant
\* name is one symbol and " " is a whitespace character.
Tenants == {"Private", "Highschool", "Academy"}

\* mapping of get_worksheet_names
WORKSHEETS ==
    [t \in Tenants |->
        [money |-> IF t = "Private" THEN "DengiBotPrivate"
                   ELSE IF t = "Highschool" THEN "DengiBotHighschool"
                   ELSE "DengiBotAcademy",
         students |-> IF t = "Private" THEN "UchenikiBotPrivate"
                      ELSE IF t = "Highschool" THEN "UchenikiBotHighschool"
                      ELSE "UchenikiBotAcademy",
         staff |-> IF t = "Private" THEN "SotrudnikiBotPrivate"
                   ELSE IF t = "Highschool" THEN "SotrudnikiBotHighschool"
                   ELSE "SotrudnikiBotAcademy"]]

DDS_SOURCES ==
    [t \in Tenants |->
        [key |-> IF t = "Private" THEN "1FIBAlCkUL2qT9ztd3gfH5kOd3eHLKE53eYKLJzD75dw"
                 ELSE IF t = "Highschool" THEN "1N_8nASKsuLaQPbs8BuonLGn5tkjM803X--JyC2_OUt8"
                 ELSE "1NkomZvK6mw-QBa7PWW8MhnFN7DdJ_r2a9PSfg095L4Y",
         sheet |-> IF t = "Private" THEN "TelegramBotPrivate"
                   ELSE IF t = "Highschool" THEN "TelegramBotHighschool"
                   ELSE "TelegramBotAcademy"]]

header_ranges ==
    [t \in Tenants |-> IF t = "Private" THEN "A1:B3"
                       ELSE IF t = "Highschool" THEN "F1:G3" ELSE "K1:L3"]

table_ranges ==
    [t \in Tenants |-> IF t = "Private" THEN "A4:C63"
                       ELSE IF t = "Highschool" THEN "F4:H63" ELSE "K4:M63"]

\* dict.get(key, default): the entry of exactly that key, else the default.
DictGet(d, key, default) ==
    IF Len(key) = 1 /\ key[1] \in DOMAIN d THEN d[key[1]] ELSE default

\* request.args.get("branch", "Private")
BranchOf(arg) == IF arg.kind = "absent" THEN <<"Private">> ELSE arg.v

\* Mutant of get_worksheet_names: the argument is looked up as given.
get_worksheet_names_NoStrip(branch) ==
    DictGet(WORKSHEETS, IF branch = <<>> THEN <<"Private">> ELSE branch,
            WORKSHEETS["Private"])

\* get_worksheet_names(branch): (branch or "Private").strip(), then the
\* mapping with Private as default.
get_worksheet_names(branch) ==
    DictGet(WORKSHEETS, Strip(IF branch = <<>> THEN <<"Private">> ELSE branch),
            WORKSHEETS["Private"])

\* open_dds_sheet(branch): src = DDS_SOURCES.get(branch, DDS_SOURCES["Private"])
open_dds_sheet(branch) == DictGet(DDS_SOURCES, branch, DDS_SOURCES["Private"])

\* read_breakdown_cached(branch, scope): the same lookup, for the breakdown.
BreakdownSource(branch) == DictGet(DDS_SOURCES, branch, DDS_SOURCES["Private"])

\* pk(): the header and table ranges of the branch.
PkRanges(branch) ==
    [header |-> DictGet(header_ranges, branch, "A1:B3"),
     table |-> DictGet(table_ranges, branch, "A4:C63")]

\* Inputs of the tenant model.
Symbols == Tenants \cup {" ", "Other"}
BranchArgs ==
    {AbsentText} \cup
    {[kind |-> "text", v |-> b] : b \in UNION {[1..m -> Symbols] : m \in 0..MaxArgLen}}
NoNames == [money |-> "", students |-> "", staff |-> ""]
NoSource == [key |-> "", sheet |-> ""]
NoRanges == [header |-> "", table |-> ""]
TenantIdle == [arg |-> AbsentText, sent |-> FALSE, names |-> NoNames,
               dds |-> NoSource, bd |-> NoSource, pk |-> NoRanges]

Init ==
    /\ now = 0
    /\ cache = [k \in DataKeys |-> NoEntry]
    /\ sheet = [b \in Branches |-> 0]
    /\ pc = [t \in Threads |-> "idle"]
    /\ req = [t \in Threads |-> NoKey]
    /\ rv = [t \in Threads |-> NoData]
    /\ pending = {}
    /\ ev = Event("init", NoKey, NoData)
    /\ stale = [t \in Threads |-> FALSE]
    /\ rec = RecIdle
    /\ pg = PageIdle
    /\ tn = TenantIdle

\* The clock advances.
Tick ==
    /\ now + ClockStep <= MaxNow
    /\ now' = now + ClockStep
    /\ ev' = Event("tick", NoKey, NoData)
    /\ UNCHANGED <<cache, sheet, pc, req, rv, pending, stale, rec, pg, tn>>

\* A read request arrives: @cache.cached / @cache.memoize look the key up.
\* A hit answers at once; a miss goes on to run the wrapped function.
Lookup(t, k) ==
    LET got == CacheGet(cache, k, now)
    IN /\ pc[t] = "idle"
       /\ ev' = [Event("lookup", k, got) EXCEPT !.t = t, !.inval = k \in pending]
       /\ pending' = pending \ {k}
       /\ IF got # NoData
          THEN UNCHANGED <<pc, req, stale>>
          ELSE /\ pc' = [pc EXCEPT ![t] = "compute"]
               /\ req' = [req EXCEPT ![t] = k]
               /\ stale' = [stale EXCEPT ![t] = cache[k].present]
       /\ UNCHANGED <<now, cache, sheet, rv, rec, pg, tn>>

\* get_balance(): read the tenant's DDS sheet; any exception is caught and
\* becomes the 500 response, which is the view's return value.
get_balance(t) ==
    /\ pc[t] = "compute" /\ req[t][1] = "balance"
    /\ \E ok \in BOOLEAN :
         rv' = [rv EXCEPT ![t] = IF ok THEN Ok(sheet[req[t][2]]) ELSE Err500]
    /\ ev' = Event("compute", req[t], NoData)
    /\ pc' = [pc EXCEPT ![t] = "store"]
    /\ UNCHANGED <<now, cache, sheet, req, pending, stale, rec, pg, tn>>

\* read_breakdown_cached(): one batched read of the tenant's sheet; an
\* exception leaves the memoized function and breakdown() answers 500.
read_breakdown_cached(t) ==
    /\ pc[t] = "compute" /\ req[t][1] = "breakdown"
    /\ \/ /\ rv' = [rv EXCEPT ![t] = Ok(sheet[req[t][2]])]
          /\ pc' = [pc EXCEPT ![t] = "store"]
          /\ ev' = Event("compute", req[t], NoData)
          /\ UNCHANGED <<req, stale>>
       \/ /\ pc' = [pc EXCEPT ![t] = "idle"]
          /\ req' = [req EXCEPT ![t] = NoKey]
          /\ stale' = [stale EXCEPT ![t] = FALSE]
          /\ ev' = [Event("failed", req[t], Err500) EXCEPT !.stale = stale[t]]
          /\ UNCHANGED rv
    /\ UNCHANGED <<now, cache, sheet, pending, rec, pg, tn>>

\* The decorator stores the function's return value and answers with it.
Store(t) ==
    /\ pc[t] = "store"
    /\ cache' = CacheSet(cache, req[t], rv[t], Timeout(req[t]), now)
    /\ ev' = [Event("store", req[t], rv[t]) EXCEPT !.stale = stale[t]]
    /\ pc' = [pc EXCEPT ![t] = "idle"]
    /\ req' = [req EXCEPT ![t] = NoKey]
    /\ rv' = [rv EXCEPT ![t] = NoData]
    /\ stale' = [stale EXCEPT ![t] = FALSE]
    /\ UNCHANGED <<now, sheet, pending, rec, pg, tn>>

\* Mutant of WriteCell: the cache is cleared before the cell is written.
WriteCell_ClearFirst(op, b, ok) ==
    /\ cache' = CacheClear(cache)
    /\ IF ok
       THEN /\ Writes(sheet) < MaxWrites
            /\ sheet' = [sheet EXCEPT ![b] = @ + 1]
            /\ pending' = DataKeys
            /\ ev' = [Event("written", <<op, b>>, StatusOk) EXCEPT
                        !.n = Cardinality(Present(cache))]
       ELSE /\ ev' = Event("rejected", <<op, b>>, Err500)
            /\ UNCHANGED <<sheet, pending>>
    /\ UNCHANGED <<now, pc, req, rv, stale, rec, pg, tn>>

\* A write handler: update_acell on the tenant's sheet, then cache.clear();
\* an exception answers 500 before the clear is reached.
WriteCell(op, b, ok) ==
    /\ IF ok
       THEN /\ Writes(sheet) < MaxWrites
            /\ sheet' = [sheet EXCEPT ![b] = @ + 1]
            /\ cache' = CacheClear(cache)
            /\ pending' = DataKeys
            /\ ev' = [Event("written", <<op, b>>, StatusOk) EXCEPT
                        !.n = Cardinality(Present(cache))]
       ELSE /\ ev' = Event("rejected", <<op, b>>, Err500)
            /\ UNCHANGED <<sheet, cache, pending>>
    /\ UNCHANGED <<now, pc, req, rv, stale, rec, pg, tn>>

set_month(b, ok) == WriteCell("set-month", b, ok)

set_date(b, ok) == WriteCell("set-date", b, ok)

\* students_set_month() / staff_set_month(): an empty value answers 400.
WriteChecked(op, b, hasValue, ok) ==
    IF ~hasValue
    THEN /\ ev' = Event("rejected", <<op, b>>, Err400)
         /\ UNCHANGED <<now, cache, sheet, pc, req, rv, pending, stale, rec, pg, tn>>
    ELSE WriteCell(op, b, ok)

students_set_month(b, hasValue, ok) ==
    WriteChecked("students-set-month", b, hasValue, ok)

staff_set_month(b, hasValue, ok) ==
    WriteChecked("staff-set-month", b, hasValue, ok)

\* upload_report(): missing ym/file or a non-pdf name answers 400; otherwise
\* the file is saved and the cache cleared.
upload_report(valid) ==
    /\ IF ~valid
       THEN /\ ev' = Event("rejected", <<"upload", "">>, Err400)
            /\ UNCHANGED <<cache, pending>>
       ELSE /\ cache' = CacheClear(cache)
            /\ pending' = DataKeys
            /\ ev' = [Event("written", <<"upload", "">>, StatusOk) EXCEPT
                        !.n = Cardinality(Present(cache))]
    /\ UNCHANGED <<now, sheet, pc, req, rv, stale, rec, pg, tn>>

\* delete_report(): missing ym/name answers 400, an absent file 404, a failing
\* os.remove 500; otherwise the file is removed and the cache cleared.
delete_report(valid, exists, removeOk) ==
    /\ IF ~valid
       THEN /\ ev' = Event("rejected", <<"delete", "">>, Err400)
            /\ UNCHANGED <<cache, pending>>
       ELSE IF ~exists
       THEN /\ ev' = Event("rejected", <<"delete", "">>, Err404)
            /\ UNCHANGED <<cache, pending>>
       ELSE IF ~removeOk
       THEN /\ ev' = Event("rejected", <<"delete", "">>, Err500)
            /\ UNCHANGED <<cache, pending>>
       ELSE /\ cache' = CacheClear(cache)
            /\ pending' = DataKeys
            /\ ev' = [Event("written", <<"delete", "">>, StatusOk) EXCEPT
                        !.n = Cardinality(Present(cache))]
    /\ UNCHANGED <<now, sheet, pc, req, rv, stale, rec, pg, tn>>

\* clear_cache(): cache.clear(), then delete_memoized of the memoized
\* functions.
clear_cache ==
    /\ cache' = DeleteMemoized(CacheClear(cache), "breakdown")
    /\ pending' = DataKeys
    /\ ev' = [Event("written", <<"cache-clear", "">>, StatusOk) EXCEPT
                        !.n = Cardinality(Present(cache))]
    /\ UNCHANGED <<now, sheet, pc, req, rv, stale, rec, pg, tn>>

Next ==
    \/ Tick
    \/ \E t \in Threads, k \in DataKeys : Lookup(t, k)
    \/ \E t \in Threads : get_balance(t)
    \/ \E t \in Threads : read_breakdown_cached(t)
    \/ \E t \in Threads : Store(t)
    \/ \E b \in Branches, ok \in BOOLEAN : set_month(b, ok)
    \/ \E b \in Branches, ok \in BOOLEAN : set_date(b, ok)
    \/ \E b \in Branches, v \in BOOLEAN, ok \in BOOLEAN : students_set_month(b, v, ok)
    \/ \E b \in Branches, v \in BOOLEAN, ok \in BOOLEAN : staff_set_month(b, v, ok)
    \/ \E v \in BOOLEAN : upload_report(v)
    \/ \E v \in BOOLEAN, x \in BOOLEAN, r \in BOOLEAN : delete_report(v, x, r)
    \/ clear_cache

Spec == Init /\ [][Next]_vars

\* ------------------------------------------------- reconciliation on its own
\* batch_get has returned four blocks of any lengths and contents.
InitRec ==
    /\ now = 0
    /\ cache = [k \in DataKeys |-> NoEntry]
    /\ sheet = [b \in Branches |-> 0]
    /\ pc = [t \in Threads |-> "idle"]
    /\ req = [t \in Threads |-> NoKey]
    /\ rv = [t \in Threads |-> NoData]
    /\ pending = {}
    /\ ev = Event("init", NoKey, NoData)
    /\ stale = [t \in Threads |-> FALSE]
    /\ \E a \in BlocksUpTo(KeyRows, MaxLen), c \in BlocksUpTo(InfoRows, MaxLen),
          p \in BlocksUpTo(InfoRows, MaxLen), r \in BlocksUpTo(KeyRows, MaxLen) :
         rec = [pc |-> "fetched",
                blocks |-> [amount |-> a, counterparty |-> c, purpose |-> p,
                            article |-> r],
                status |-> "", out |-> <<>>, rows |-> <<>>, runs |-> 0,
                prev |-> <<>>]
    /\ pg = PageIdle
    /\ tn = TenantIdle

\* read_breakdown_cached reconciles the four blocks; a later call on the same
\* blocks reconciles them again (prev keeps the output of the call before).
Reconcile ==
    /\ rec.pc \in {"fetched", "done"}
    /\ rec.runs < MaxRuns
    /\ LET r == Reconciled(rec.blocks)
       IN rec' = [rec EXCEPT !.pc = "done", !.status = r.status,
                             !.out = r.out, !.rows = r.rows,
                             !.runs = @ + 1, !.prev = rec.out]
    /\ UNCHANGED <<now, cache, sheet, pc, req, rv, pending, ev, stale, pg, tn>>

NextRec == Reconcile

SpecRec == InitRec /\ [][NextRec]_vars

\* The cache, the threads and the history at rest, as after construction.
AtRest ==
    /\ now = 0
    /\ cache = [k \in DataKeys |-> NoEntry]
    /\ sheet = [b \in Branches |-> 0]
    /\ pc = [t \in Threads |-> "idle"]
    /\ req = [t \in Threads |-> NoKey]
    /\ rv = [t \in Threads |-> NoData]
    /\ pending = {}
    /\ ev = Event("init", NoKey, NoData)
    /\ stale = [t \in Threads |-> FALSE]

\* ------------------------------------------------------- paging on its own
\* A /breakdown request whose read_breakdown_cached call has returned items.
InitPage ==
    /\ AtRest
    /\ rec = RecIdle
    /\ tn = TenantIdle
    /\ \E items \in ItemLists, p \in PageArgs, l \in LimitArgs, q \in SearchArgs :
         pg = [pc |-> "request", items |-> items, pageArg |-> p,
               limitArg |-> l, searchArg |-> q, resp |-> NoResponse]

\* breakdown(): parse, filter, slice and answer; an exception answers 500.
breakdown ==
    /\ pg.pc = "request"
    /\ pg' = [pg EXCEPT !.pc = "done",
                        !.resp = Page(pg.items, pg.pageArg, pg.limitArg, pg.searchArg)]
    /\ UNCHANGED <<now, cache, sheet, pc, req, rv, pending, ev, stale, rec, tn>>

NextPage == breakdown

SpecPage == InitPage /\ [][NextPage]_vars

\* --------------------------------------------- tenant resolution on its own
\* Requests carrying the same branch argument reach the four resolvers, in
\* any order.
InitTenant ==
    /\ AtRest
    /\ rec = RecIdle
    /\ pg = PageIdle
    /\ \E a \in BranchArgs : tn = [TenantIdle EXCEPT !.arg = a, !.sent = TRUE]

\* /students, /staff, /balance-trend and the set-month handlers of the rosters.
ResolveWorksheets ==
    /\ tn.sent /\ tn.names = NoNames
    /\ tn' = [tn EXCEPT !.names = get_worksheet_names(BranchOf(tn.arg))]
    /\ UNCHANGED <<now, cache, sheet, pc, req, rv, pending, ev, stale, rec, pg>>

\* /balance, /summary, /set-date and /set-month.
ResolveDds ==
    /\ tn.sent /\ tn.dds = NoSource
    /\ tn' = [tn EXCEPT !.dds = open_dds_sheet(BranchOf(tn.arg))]
    /\ UNCHANGED <<now, cache, sheet, pc, req, rv, pending, ev, stale, rec, pg>>

\* /breakdown.
ResolveBreakdown ==
    /\ tn.sent /\ tn.bd = NoSource
    /\ tn' = [tn EXCEPT !.bd = BreakdownSource(BranchOf(tn.arg))]
    /\ UNCHANGED <<now, cache, sheet, pc, req, rv, pending, ev, stale, rec, pg>>

\* /pk.
ResolvePk ==
    /\ tn.sent /\ tn.pk = NoRanges
    /\ tn' = [tn EXCEPT !.pk = PkRanges(BranchOf(tn.arg))]
    /\ UNCHANGED <<now, cache, sheet, pc, req, rv, pending, ev, stale, rec, pg>>

NextTenant ==
    \/ ResolveWorksheets
    \/ ResolveDds
    \/ ResolveBreakdown
    \/ ResolvePk

SpecTenant == InitTenant /\ [][NextTenant]_vars

\* ================================================================== claims
WriteOps == {"set-month", "set-date", "students-set-month", "staff-set-month"}
ClearOps == {"upload", "delete", "cache-clear"}
Age(k) == now - cache[k].storedAt

\* C1: a get of key k that happens less than ttl seconds after k's entry was
\* stored (the entry still being there) answers with the stored value and
\* starts no compute.
C1_FreshGetServedFromCache ==
    (ev.kind = "lookup" /\ cache[ev.k].present /\ Age(ev.k) < Timeout(ev.k))
        => /\ ev.resp = cache[ev.k].value
           /\ pc[ev.t] = "idle"

\* C1 witness: a second get, some time after the store, is served from cache.
C1_Witness ==
    /\ ev.kind = "lookup" /\ cache[ev.k].present
    /\ Age(ev.k) > 0 /\ Age(ev.k) < Timeout(ev.k)
    /\ ev.resp = cache[ev.k].value /\ pc[ev.t] = "idle"

\* C2: a failing compute leaves the cache without an entry for its key: the
\* cache never holds an error response (no negative caching).
C2_NoNegativeCaching ==
    \A k \in DataKeys : cache[k].present => cache[k].value.status = 200

\* C3: when the recompute of a key whose previous entry has expired fails,
\* the caller is answered with the previous (stale) value, not with an error.
C3_StaleServedOnFailure ==
    (ev.kind \in {"failed", "store"} /\ ev.stale) => ev.resp.status = 200

\* C4: callers that miss on the same key do not each fetch: at most one of
\* them has performed the underlying fetch and holds its result.
C4_SingleFlight ==
    \A k \in DataKeys :
        Cardinality({t \in Threads : pc[t] = "store" /\ req[t] = k}) <= 1

\* C5: the first get of a key after an invalidation covering it is not
\* answered from the cache: it runs compute.
C5_NextGetAfterInvalidationComputes ==
    (ev.kind = "lookup" /\ ev.inval) => (ev.resp = NoData /\ pc[ev.t] = "compute")

\* C6: right after a write operation answers success, the cell has been
\* written and no cache entry remains, for any tenant and operation.
C6_WriteInvalidatesAll ==
    (ev.kind = "written" /\ ev.k[1] \in WriteOps)
        => /\ sheet[ev.k[2]] >= 1
           /\ \A k \in DataKeys : ~cache[k].present
           /\ ev.resp.status = 200

\* C6 witness: a successful write dropped entries of both tenants.
C6_Witness ==
    /\ ev.kind = "written" /\ ev.k[1] \in WriteOps
    /\ ev.n = Cardinality(DataKeys)
    /\ Present(cache) = {}

\* C7: a get is served from the cache exactly when now - storedAt < ttl; at
\* now - storedAt >= ttl (equality included) it runs compute.
C7_FreshIffYoungerThanTtl ==
    (ev.kind = "lookup" /\ cache[ev.k].present)
        => /\ (Age(ev.k) < Timeout(ev.k))
                <=> (ev.resp = cache[ev.k].value /\ pc[ev.t] = "idle")
           /\ (Age(ev.k) >= Timeout(ev.k))
                <=> (ev.resp = NoData /\ pc[ev.t] = "compute" /\ req[ev.t] = ev.k)

\* C7 witness: a get exactly ttl seconds after the store runs compute.
C7_Witness ==
    /\ ev.kind = "lookup" /\ cache[ev.k].present
    /\ Age(ev.k) = Timeout(ev.k)
    /\ pc[ev.t] = "compute"

NonBlank(cell) == \E j \in 1..Len(cell) : cell[j] \notin Whitespace
CellAt(a, i) == IF i <= Len(a) /\ Len(a[i]) >= 1 THEN a[i][1] ELSE <<>>
BlockLens(b) == {Len(b.amount), Len(b.counterparty), Len(b.purpose), Len(b.article)}
LongestBlock(b) == CHOOSE n \in BlockLens(b) : \A m \in BlockLens(b) : n >= m
Kept(b, i) == NonBlank(CellAt(b.amount, i)) \/ NonBlank(CellAt(b.article, i))
EmittedRows == {rec.rows[j] : j \in 1..Len(rec.rows)}

\* C9: a record for row i is in the output exactly when the trimmed amount or
\* the trimmed article of row i is non-empty, whatever counterparty and
\* purpose hold; no record has both empty, and no row is emitted twice.
C9_DropRule ==
    rec.pc = "done" =>
        /\ \A i \in 1..(MaxLen + 1) :
              i \in EmittedRows <=> (i <= LongestBlock(rec.blocks) /\ Kept(rec.blocks, i))
        /\ Len(rec.out) = Len(rec.rows)
        /\ Cardinality(EmittedRows) = Len(rec.rows)
        /\ \A j \in 1..Len(rec.out) :
              rec.out[j].amount # <<>> \/ rec.out[j].article # <<>>

\* C9 witness: a row with counterparty text and blank amount and article was
\* dropped, and a row with only an article was emitted.
C9_Witness ==
    /\ rec.pc = "done"
    /\ \E i \in 1..MaxLen :
          /\ i \notin EmittedRows
          /\ NonBlank(CellAt(rec.blocks.counterparty, i))
          /\ CellAt(rec.blocks.amount, i) # <<>>
    /\ \E j \in 1..MaxLen :
          /\ j \in EmittedRows
          /\ NonBlank(CellAt(rec.blocks.article, j))
          /\ ~NonBlank(CellAt(rec.blocks.amount, j))
          /\ ~NonBlank(CellAt(rec.blocks.counterparty, j))
          /\ ~NonBlank(CellAt(rec.blocks.purpose, j))

\* C10: on blocks of any lengths the reconciliation does not fail, a missing
\* row or cell reads as the empty string, and the number of records is the
\* longest block's length minus the number of dropped rows.
C10_RaggedInput ==
    rec.pc = "done" =>
        LET b == rec.blocks
            n == LongestBlock(b)
            dropped == Cardinality({i \in 1..n : ~Kept(b, i)})
        IN /\ rec.status = "ok"
           /\ Len(rec.out) = n - dropped
           /\ (n = 0 => rec.out = <<>>)
           /\ \A j \in 1..Len(rec.out) :
                 LET i == rec.rows[j] IN
                 /\ (CellAt(b.amount, i) = <<>> => rec.out[j].amount = <<>>)
                 /\ (CellAt(b.article, i) = <<>> => rec.out[j].article = <<>>)
                 /\ (CellAt(b.counterparty, i) = <<>> => rec.out[j].counterparty = <<>>)
                 /\ (CellAt(b.purpose, i) = <<>> => rec.out[j].purpose = <<>>)

\* C10 witness: blocks of three different lengths, one of them empty, and a
\* record emitted for a row that two of the blocks do not have.
C10_Witness ==
    /\ rec.pc = "done" /\ rec.status = "ok"
    /\ Cardinality(BlockLens(rec.blocks)) >= 3
    /\ Len(rec.blocks.purpose) = 0
    /\ Len(rec.blocks.amount) < Len(rec.blocks.article)
    /\ Len(rec.blocks.article) \in EmittedRows
    /\ \E i \in 1..Len(rec.blocks.amount) : rec.blocks.amount[i] = <<>>
\* The trimmed text of a cell, stated over positions: what lies between its
\* first and its last non-whitespace character.
FirstNonBlank(s) ==
    CHOOSE j \in 1..Len(s) :
        s[j] \notin Whitespace /\ \A m \in 1..(j - 1) : s[m] \in Whitespace
LastNonBlank(s) ==
    CHOOSE j \in 1..Len(s) :
        s[j] \notin Whitespace /\ \A m \in (j + 1)..Len(s) : s[m] \in Whitespace
Trimmed(s) ==
    IF NonBlank(s) THEN SubSeq(s, FirstNonBlank(s), LastNonBlank(s)) ELSE <<>>
KeptRows(b) == {i \in 1..LongestBlock(b) : Kept(b, i)}

\* C11: the records come in strictly increasing order of their row index, one
\* per kept row (no re-sorting, no duplicate), each record's four fields are
\* the trimmed cells of its own row in the four blocks, and reconciling the
\* same blocks again gives the same sequence.
C11_OrderPreserving ==
    rec.pc = "done" =>
        LET b == rec.blocks IN
        /\ Len(rec.out) = Len(rec.rows)
        /\ \A j \in 1..(Len(rec.rows) - 1) : rec.rows[j] < rec.rows[j + 1]
        /\ EmittedRows = KeptRows(b)
        /\ \A j \in 1..Len(rec.out) :
              rec.out[j] = [amount |-> Trimmed(CellAt(b.amount, rec.rows[j])),
                            article |-> Trimmed(CellAt(b.article, rec.rows[j])),
                            counterparty |-> Trimmed(CellAt(b.counterparty, rec.rows[j])),
                            purpose |-> Trimmed(CellAt(b.purpose, rec.rows[j]))]
        /\ (rec.runs >= 2 => rec.out = rec.prev)

\* C11 witness: the second run over blocks that give two records, with cells
\* that carry leading and trailing whitespace.
C11_Witness ==
    /\ rec.pc = "done" /\ rec.runs = 2
    /\ Len(rec.out) >= 2
    /\ rec.out = rec.prev
    /\ \E j \in 1..Len(rec.out) :
          /\ CellAt(rec.blocks.amount, rec.rows[j]) # rec.out[j].amount
          /\ rec.out[j].amount # <<>>
          /\ CellAt(rec.blocks.counterparty, rec.rows[j]) # rec.out[j].counterparty
          /\ rec.out[j].counterparty # <<>>
\* ------------------------------------------------------- paging claims
Numeric(arg) == arg.kind \in {"int", "absent"}
Asked(arg, default) == IF arg.kind = "absent" THEN default ELSE arg.v
Hits(items, q) ==
    {i \in 1..Len(items) : q = <<>> \/ Matches(items[i], q)}

\* C12: for every page number and limit, the response is not an error; with
\* page raised to at least 1 and limit brought into 1..500, data is the slice
\* of the filtered items from (page-1)*limit on, at most limit long and empty
\* past the end, and total is the number of items left by the search filter.
C12_Pagination ==
    (pg.pc = "done" /\ Numeric(pg.pageArg) /\ Numeric(pg.limitArg)) =>
        LET r == pg.resp
            askedP == Asked(pg.pageArg, DEFAULT_PAGE)
            askedL == Asked(pg.limitArg, DEFAULT_LIMIT)
            P == IF askedP < 1 THEN 1 ELSE askedP
            L == IF askedL < 1 THEN 1 ELSE IF askedL > 500 THEN 500 ELSE askedL
            n == Cardinality(Hits(pg.items, SearchOf(pg.searchArg)))
            first == (P - 1) * L
        IN /\ r.status = 200
           /\ r.total = n
           /\ Len(r.items) = n
           /\ Len(r.data) <= L
           /\ Len(r.data) = (IF first >= n THEN 0
                             ELSE IF first + L > n THEN n - first ELSE L)
           /\ \A j \in 1..Len(r.data) : r.data[j] = r.items[first + j]

\* C12 witness: page 999 of a 3-item result is answered with an empty list.
C12_Witness ==
    /\ pg.pc = "done"
    /\ pg.pageArg = IntArg(999)
    /\ pg.resp.status = 200 /\ pg.resp.total = 3
    /\ pg.resp.data = <<>>

\* ------------------------------------------------------- tenant claims
\* The tenant the claims assign to an argument: itself when it is one of the
\* three names, Private otherwise.
ClaimedTenant(arg) ==
    IF arg.kind = "text" /\ Len(arg.v) = 1 /\ arg.v[1] \in Tenants
    THEN arg.v[1] ELSE "Private"
NamesTenant == CHOOSE t \in Tenants : WORKSHEETS[t] = tn.names
DdsTenant == CHOOSE t \in Tenants : DDS_SOURCES[t] = tn.dds
BreakdownTenant == CHOOSE t \in Tenants : DDS_SOURCES[t] = tn.bd
PkTenant ==
    CHOOSE t \in Tenants : tn.pk = [header |-> header_ranges[t], table |-> table_ranges[t]]
AllResolved ==
    tn.names # NoNames /\ tn.dds # NoSource /\ tn.bd # NoSource /\ tn.pk # NoRanges

\* C13: an argument that is absent or not one of Private, Highschool, Academy
\* resolves to Private's worksheet names, DDS document and sheet and
\* payment-calendar ranges; one of the three names resolves to its own.
C13_FallbackToPrivate ==
    LET t == ClaimedTenant(tn.arg)
    IN /\ tn.names # NoNames => tn.names = WORKSHEETS[t]
       /\ tn.dds # NoSource => tn.dds = DDS_SOURCES[t]
       /\ tn.pk # NoRanges =>
             tn.pk = [header |-> header_ranges[t], table |-> table_ranges[t]]

\* C19: for every branch argument the worksheet names, the DDS source, the
\* breakdown source and the payment-calendar ranges belong to one tenant.
C19_ResolversAgree ==
    AllResolved =>
        /\ NamesTenant = DdsTenant
        /\ DdsTenant = BreakdownTenant
        /\ BreakdownTenant = PkTenant

\* ------------------------------------------------ write / cache claims
\* C17: a get that starts after a successful write of its tenant is never
\* answered with a value read from the sheet before that write.
C17_NoPreWriteValueSurvives ==
    (ev.kind = "lookup" /\ ev.resp.status = 200)
        => ev.resp.data = sheet[ev.k[2]]

====
